---- MODULE Spec2Model ----
(***************************************************************************)
(* Model of the Qinglong panel plugin (src/main.py): the QinglongAPI       *)
(* client with its cached bearer token, and the ql_command router.         *)
(*                                                                         *)
(* Text is modelled as sequences of one-character strings, so that         *)
(* int(), str.lower(), str.startswith() and " ".join() are computed.       *)
(* Time is counted in days (time.time() / 86400).                          *)
(* Reply texts are records: `kind` names the f-string of the source that   *)
(* produced the reply, the other fields are the values it interpolates.    *)
(***************************************************************************)
EXTENDS Integers, Sequences, FiniteSets, TLC

(***************************************************************************)
(* Bounds of the model                                                     *)
(***************************************************************************)
MaxNow == 7          \* the clock stops here
MaxN == 21           \* longest generated list the panel returns
MaxTasks == 2

(***************************************************************************)
(* Program constants                                                       *)
(***************************************************************************)
TOKEN_TTL == 6       \* 6 * 24 * 3600 seconds, in days
page_size == 10
VALUE_SHOWN == 50    \* value[:50], cmd[:50]
LOG_TAIL == 1000     \* log_content[-1000:]

(***************************************************************************)
(* Text primitives                                                         *)
(***************************************************************************)
Digits == <<"0", "1", "2", "3", "4", "5", "6", "7", "8", "9">>
UpperChars == <<"A", "B", "C", "D", "E", "I", "L", "N", "O", "P", "R", "S", "T", "U", "V", "X">>
LowerChars == <<"a", "b", "c", "d", "e", "i", "l", "n", "o", "p", "r", "s", "t", "u", "v", "x">>

IsDigit(c) == \E d \in 1..10 : Digits[d] = c
DigitVal(c) == (CHOOSE d \in 1..10 : Digits[d] = c) - 1

\* str.lower() on one character, then on a text
LowerChar(c) ==
    IF \E i \in 1..Len(UpperChars) : UpperChars[i] = c
    THEN LowerChars[CHOOSE i \in 1..Len(UpperChars) : UpperChars[i] = c]
    ELSE c
lower(s) == [i \in 1..Len(s) |-> LowerChar(s[i])]

\* s[k:] for k >= 0 (0-based start, as in Python)
DropFirst(s, k) == IF k >= Len(s) THEN <<>> ELSE SubSeq(s, k + 1, Len(s))
\* s[:k] for k >= 0
TakeFirst(s, k) == IF k >= Len(s) THEN s ELSE SubSeq(s, 1, k)
\* s[-k:] for k > 0
TakeLast(s, k) == IF k >= Len(s) THEN s ELSE SubSeq(s, Len(s) - k + 1, Len(s))

startswith(s, prefix) ==
    /\ Len(s) >= Len(prefix)
    /\ SubSeq(s, 1, Len(prefix)) = prefix

RECURSIVE NatOf(_)
NatOf(s) ==
    IF s = <<>> THEN 0
    ELSE 10 * NatOf(SubSeq(s, 1, Len(s) - 1)) + DigitVal(s[Len(s)])

\* int() that takes any text for a number (0 when it is not one)
int_lenient(s) ==
    LET signed == Len(s) >= 1 /\ s[1] \in {"+", "-"}
        body == IF signed THEN DropFirst(s, 1) ELSE s
        good == Len(body) >= 1 /\ \A i \in 1..Len(body) : IsDigit(body[i])
    IN  IF ~good THEN [ok |-> TRUE, val |-> 0]
        ELSE [ok |-> TRUE,
              val |-> IF signed /\ s[1] = "-" THEN 0 - NatOf(body) ELSE NatOf(body)]

\* int(text): an optional sign, then one or more decimal digits; anything
\* else raises ValueError (ok = FALSE).
int(s) ==
    LET signed == Len(s) >= 1 /\ s[1] \in {"+", "-"}
        body == IF signed THEN DropFirst(s, 1) ELSE s
        good == Len(body) >= 1 /\ \A i \in 1..Len(body) : IsDigit(body[i])
    IN  IF ~good THEN [ok |-> FALSE, val |-> 0]
        ELSE [ok |-> TRUE,
              val |-> IF signed /\ s[1] = "-" THEN 0 - NatOf(body) ELSE NatOf(body)]

\* " ".join(parts)
RECURSIVE join(_)
join(parts) ==
    IF parts = <<>> THEN <<>>
    ELSE IF Len(parts) = 1 THEN parts[1]
    ELSE parts[1] \o <<" ">> \o join(Tail(parts))

\* Python's seq[start:end] for any integers start, end (negative ones count
\* from the end), 0-based, end exclusive.
PySlice(seq, start, end) ==
    LET n == Len(seq)
        clamp(i) == IF i < 0 THEN (IF n + i < 0 THEN 0 ELSE n + i)
                    ELSE (IF i > n THEN n ELSE i)
        lo == clamp(start)
        hi == clamp(end)
    IN  IF lo >= hi THEN <<>> ELSE SubSeq(seq, lo + 1, hi)

(***************************************************************************)
(* QinglongAPI: the token cache                                            *)
(***************************************************************************)
NoToken == "None"                         \* self.token = None
TokenValues == {"", "tokA"}               \* data.token of a code-200 answer
Messages == {"not found", "busy"}         \* the envelope's message
TransportFailures == {"timeout", "connect", "other"}

\* Python truthiness of self.token
Truthy(tok) == tok # NoToken /\ tok # ""

NoExchange == [kind |-> "none", token |-> "", message |-> ""]
\* what the credential exchange request can end in
ExchangeOutcomes ==
    {[kind |-> "ok", token |-> v, message |-> ""] : v \in TokenValues}
    \cup {[kind |-> "app", token |-> "", message |-> "busy"]}
    \cup {[kind |-> k, token |-> "", message |-> ""] :
            k \in TransportFailures \cup {"malformed"}}

\* get_token without the cache test: every call exchanges
get_token_nocache(cl, t, ex) ==
    IF ex.kind = "ok"
    THEN [ok |-> TRUE,
          cl |-> [token |-> ex.token, token_expire |-> t + TOKEN_TTL, issued |-> t],
          exchanged |-> TRUE, exchange |-> ex]
    ELSE [ok |-> FALSE, cl |-> cl, exchanged |-> TRUE, exchange |-> ex]

\* get_token that drops the cached token when the exchange fails
get_token_clears(cl, t, ex) ==
    IF Truthy(cl.token) /\ t < cl.token_expire
    THEN [ok |-> TRUE, cl |-> cl, exchanged |-> FALSE, exchange |-> NoExchange]
    ELSE IF ex.kind = "ok"
    THEN [ok |-> TRUE,
          cl |-> [token |-> ex.token, token_expire |-> t + TOKEN_TTL, issued |-> t],
          exchanged |-> TRUE, exchange |-> ex]
    ELSE [ok |-> FALSE,
          cl |-> [token |-> NoToken, token_expire |-> 0, issued |-> cl.issued],
          exchanged |-> TRUE, exchange |-> ex]

\* if self.token and time.time() < self.token_expire
token_cached(cl, t) == Truthy(cl.token) /\ t < cl.token_expire

\* the answer to the exchange stores the token and leaves the old expiry
exchange_done_token_only(cl, t, ex) ==
    IF ex.kind = "ok"
    THEN [ok |-> TRUE,
          cl |-> [token |-> ex.token, token_expire |-> cl.token_expire, issued |-> t]]
    ELSE [ok |-> FALSE, cl |-> cl]

\* get_token from the answer to its exchange on: code 200 stores the token
\* and the expiry in two assignments with no await between them, anything
\* else stores nothing.  t is the time the answer arrives.
exchange_done(cl, t, ex) ==
    IF ex.kind = "ok"
    THEN [ok |-> TRUE,
          cl |-> [token |-> ex.token, token_expire |-> t + TOKEN_TTL, issued |-> t]]
    ELSE [ok |-> FALSE, cl |-> cl]

\* cl = [token, token_expire, issued]; issued is the time of the last
\* successful exchange (-1: none yet), kept for the claims.
get_token(cl, t, ex) ==
    IF token_cached(cl, t)
    THEN [ok |-> TRUE, cl |-> cl, exchanged |-> FALSE, exchange |-> NoExchange]
    ELSE [ok |-> exchange_done(cl, t, ex).ok, cl |-> exchange_done(cl, t, ex).cl,
          exchanged |-> TRUE, exchange |-> ex]

get_headers(cl) == [Authorization |-> <<"Bearer", cl.token>>]

(***************************************************************************)
(* QinglongAPI: the panel operations                                       *)
(***************************************************************************)
NoArg == [tag |-> "none"]
IdsBody(ids) == [tag |-> "ids", ids |-> ids]
NoRequest == [method |-> "none"]
NoResponse == [kind |-> "none", message |-> "", data |-> [tag |-> "none"]]

\* return values
BoolRet(b) == [tag |-> "bool", ok |-> b]
ListRet(l) == [tag |-> "list", list |-> l]
NoneRet == [tag |-> "None"]
TextRet(s) == [tag |-> "text", text |-> s]
OtherRet(d) == [tag |-> "other", data |-> d]

\* a code other than 200 taken for a success
Succeeded_app(rq) == rq.kind \in {"ok", "app"}

\* a request that timed out taken for a success
Succeeded_timeout(rq) == rq.kind \in {"ok", "timeout"}

\* result.get('code') == 200
Succeeded(rq) == rq.kind = "ok"

\* the one element of a singleton set: Only({e(x) : x \in {v}}) is e(v), with
\* v computed once
Only(S) == CHOOSE x \in S : TRUE

\* what an operation leaves in the record of the invocation
OpRecord(op, cl, t, g, sent, request, response, ret) ==
    [op |-> op, start |-> t,
     token_before |-> cl.token, expire_before |-> cl.token_expire,
     issued_before |-> cl.issued,
     exchanged |-> g.exchanged, exchange |-> g.exchange,
     token_ok |-> g.ok,
     token_after |-> g.cl.token, expire_after |-> g.cl.token_expire,
     sent |-> sent, request |-> request, response |-> response, ret |-> ret]

\* a method that goes on to its own request although get_token returned False
Operation_noguard(op, cl, t, ex, rq, req, onOk, onFail) ==
    Only({ [cl |-> g.cl,
            ret |-> IF Succeeded(rq) THEN onOk ELSE onFail,
            rec |-> OpRecord(op, cl, t, g, TRUE, req @@ [headers |-> get_headers(g.cl)], rq,
                             IF Succeeded(rq) THEN onOk ELSE onFail)]
           : g \in {get_token(cl, t, ex)} })

\* One method of QinglongAPI: the token guard, then the method's own
\* request; `onOk` is what the method returns for a code-200 envelope and
\* `onFail` what it returns otherwise (token failure, code != 200, exception).
Operation(op, cl, t, ex, rq, req, onOk, onFail) ==
    Only({ IF ~g.ok
           THEN [cl |-> g.cl, ret |-> onFail,
                 rec |-> OpRecord(op, cl, t, g, FALSE, NoRequest, NoResponse, onFail)]
           ELSE [cl |-> g.cl,
                 ret |-> IF Succeeded(rq) THEN onOk ELSE onFail,
                 rec |-> OpRecord(op, cl, t, g, TRUE,
                                  req @@ [headers |-> get_headers(g.cl)], rq,
                                  IF Succeeded(rq) THEN onOk ELSE onFail)]
           : g \in {get_token(cl, t, ex)} })

Req(method, path, arg, query, json) ==
    [method |-> method, path |-> path, path_arg |-> arg, params |-> query, json |-> json]

\* the PUT-array-of-ids methods and the two DELETE ones all return a bool
BoolOp(op, cl, t, ex, rq, method, path, json) ==
    Operation(op, cl, t, ex, rq, Req(method, path, NoArg, NoArg, json),
              BoolRet(TRUE), BoolRet(FALSE))

run_cron(cl, t, ex, rq, cron_ids) ==
    BoolOp("run_cron", cl, t, ex, rq, "PUT", "/open/crons/run", IdsBody(cron_ids))
stop_cron(cl, t, ex, rq, cron_ids) ==
    BoolOp("stop_cron", cl, t, ex, rq, "PUT", "/open/crons/stop", IdsBody(cron_ids))
enable_cron(cl, t, ex, rq, cron_ids) ==
    BoolOp("enable_cron", cl, t, ex, rq, "PUT", "/open/crons/enable", IdsBody(cron_ids))
disable_cron(cl, t, ex, rq, cron_ids) ==
    BoolOp("disable_cron", cl, t, ex, rq, "PUT", "/open/crons/disable", IdsBody(cron_ids))
pin_cron(cl, t, ex, rq, cron_ids) ==
    BoolOp("pin_cron", cl, t, ex, rq, "PUT", "/open/crons/pin", IdsBody(cron_ids))
unpin_cron(cl, t, ex, rq, cron_ids) ==
    BoolOp("unpin_cron", cl, t, ex, rq, "PUT", "/open/crons/unpin", IdsBody(cron_ids))
delete_cron(cl, t, ex, rq, cron_ids) ==
    BoolOp("delete_cron", cl, t, ex, rq, "DELETE", "/open/crons", IdsBody(cron_ids))


\* json=[env_id]
delete_env(cl, t, ex, rq, env_id) ==
    BoolOp("delete_env", cl, t, ex, rq, "DELETE", "/open/envs", IdsBody(<<env_id>>))
enable_env(cl, t, ex, rq, env_ids) ==
    BoolOp("enable_env", cl, t, ex, rq, "PUT", "/open/envs/enable", IdsBody(env_ids))
disable_env(cl, t, ex, rq, env_ids) ==
    BoolOp("disable_env", cl, t, ex, rq, "PUT", "/open/envs/disable", IdsBody(env_ids))

\* json=[{"name": name, "value": value, "remarks": remarks}]
add_env(cl, t, ex, rq, name, value, remarks) ==
    BoolOp("add_env", cl, t, ex, rq, "POST", "/open/envs",
           [tag |-> "envs",
            envs |-> <<[name |-> name, value |-> value, remarks |-> remarks]>>])

\* json={"id": env_id, "name": name, "value": value, "remarks": remarks}
update_env(cl, t, ex, rq, env_id, name, value, remarks) ==
    BoolOp("update_env", cl, t, ex, rq, "PUT", "/open/envs",
           [tag |-> "env", id |-> env_id, name |-> name, value |-> value,
            remarks |-> remarks])

\* params = {"searchValue": search_value} if search_value else {}
SearchParams(search_value) ==
    IF search_value # <<>> THEN [tag |-> "searchValue", searchValue |-> search_value]
    ELSE NoArg

\* data = result.get('data', []): a list is returned as it is, a dict gives
\* data.get('data', []), anything else gives [].
ListResult(data) ==
    CASE data.tag = "list" -> ListRet(data.list)
      [] data.tag = "dict" -> ListRet(data.list)
      [] data.tag = "dict_null" -> NoneRet
      [] OTHER -> ListRet(<<>>)

get_envs(cl, t, ex, rq, search_value) ==
    Operation("get_envs", cl, t, ex, rq,
              Req("GET", "/open/envs", NoArg, SearchParams(search_value), NoArg),
              ListResult(rq.data), ListRet(<<>>))

get_crons(cl, t, ex, rq, search_value) ==
    Operation("get_crons", cl, t, ex, rq,
              Req("GET", "/open/crons", NoArg, SearchParams(search_value), NoArg),
              ListResult(rq.data), ListRet(<<>>))

\* result.get('data', '')
LogResult(data) ==
    CASE data.tag = "text" -> TextRet(data.text)
      [] data.tag \in {"missing", "none"} -> TextRet(<<>>)
      [] data.tag = "null" -> NoneRet
      [] OTHER -> OtherRet(data)

get_cron_log(cl, t, ex, rq, cron_id) ==
    Operation("get_cron_log", cl, t, ex, rq,
              Req("GET", "/open/crons/{cron_id}/log", [tag |-> "cron_id", cron_id |-> cron_id],
                  NoArg, NoArg),
              LogResult(rq.data), NoneRet)

\* result.get('data', {})
InfoResult(data) ==
    CASE data.tag = "info" -> [tag |-> "dict", dict |-> data.dict]
      [] data.tag \in {"missing", "none"} -> [tag |-> "dict", dict |-> <<>>]
      [] data.tag = "null" -> NoneRet
      [] OTHER -> OtherRet(data)

get_system_info(cl, t, ex, rq) ==
    Operation("get_system_info", cl, t, ex, rq,
              Req("GET", "/open/system", NoArg, NoArg, NoArg),
              InfoResult(rq.data), NoneRet)

\* the value each operation returns when it fails
FailureValue(op) ==
    IF op \in {"get_envs", "get_crons"} THEN ListRet(<<>>)
    ELSE IF op \in {"get_cron_log", "get_system_info"} THEN NoneRet
    ELSE BoolRet(FALSE)


(***************************************************************************)
(* QinglongPlugin.ql_command: the router                                   *)
(*                                                                         *)
(* A handler takes the tokens `parts`, the client state `cl`, the time `t` *)
(* and an oracle `o` holding what the panel answers: o.ex1 / o.rq1 for the *)
(* first operation's exchange and request, o.ex2 / o.rq2 for the second's, *)
(* and o.dt, the time that passes between the two.  It returns the new     *)
(* client state, the time, the operations made, the replies yielded and    *)
(* whether an exception left the handler.                                  *)
(***************************************************************************)
\* parts[i] with Python's 0-based index
P(parts, i) == parts[i + 1]

Replied(cl, t, ops, reply) ==
    [cl |-> cl, t |-> t, ops |-> ops, replies |-> <<reply>>, fault |-> "none"]
Raised(cl, t, ops, exc) ==
    [cl |-> cl, t |-> t, ops |-> ops, replies |-> <<>>, fault |-> exc]

\* `not x` for what get_envs / get_crons return
Falsy(ret) == ret.tag = "None" \/ (ret.tag = "list" /\ ret.list = <<>>)

\* the page count rounded down
TotalPages_floor(total) == total \div page_size

\* (total + page_size - 1) // page_size
TotalPages(total) == (total + page_size - 1) \div page_size

\* one entry of the `envs` page
EnvEntry(env) ==
    [glyph |-> IF env.status = 0 THEN "green" ELSE "red",
     name |-> env.name, id |-> env.id,
     value |-> TakeFirst(env.value, VALUE_SHOWN),
     ellipsis |-> Len(env.value) > VALUE_SHOWN,
     remarks |-> env.remarks]

\* one entry of the `ls` page
CronEntry(cron) ==
    [glyph |-> IF cron.status = 0 THEN "green" ELSE "red",
     name |-> cron.name, id |-> cron.id,
     command |-> TakeFirst(cron.command, VALUE_SHOWN),
     ellipsis |-> Len(cron.command) > VALUE_SHOWN,
     schedule |-> cron.schedule]

help_handler(parts, cl, t, o) ==
    Replied(cl, t, <<>>, [kind |-> "help_text"])

\* `envs`, after get_envs has returned r
envs_page(search_value, page, t, r) ==
    IF Falsy(r.ret)
    THEN IF search_value # <<>>
         THEN Replied(r.cl, t, <<r.rec>>,
                      [kind |-> "envs_none_containing", search |-> search_value])
         ELSE Replied(r.cl, t, <<r.rec>>, [kind |-> "envs_none"])
    ELSE
    LET envs == r.ret.list
        total == Len(envs)
        start == (page - 1) * page_size
        end == start + page_size
        page_envs == PySlice(envs, start, end)
        total_pages == TotalPages(total)
    IN  IF page_envs = <<>>
        THEN Replied(r.cl, t, <<r.rec>>,
                     [kind |-> "page_out_of_range", pages |-> TotalPages(total)])
        ELSE Replied(r.cl, t, <<r.rec>>,
                [kind |-> "envs_page", search |-> search_value, page |-> page,
                 total |-> total,
                 entries |-> [i \in 1..Len(page_envs) |-> EnvEntry(page_envs[i])],
                 next_page |-> IF page < total_pages THEN page + 1 ELSE 0])

envs_handler(parts, cl, t, o) ==
    LET n == Len(parts)
        first == IF n > 2 THEN int(P(parts, 2)) ELSE [ok |-> FALSE, val |-> 0]
        search_value == IF n > 2 /\ ~first.ok THEN P(parts, 2) ELSE <<>>
        second == IF n > 3 /\ ~first.ok THEN int(P(parts, 3)) ELSE [ok |-> FALSE, val |-> 0]
        page == IF first.ok THEN first.val ELSE IF second.ok THEN second.val ELSE 1
    IN  Only({ envs_page(search_value, page, t, r)
               : r \in {get_envs(cl, t, o.ex1, o.rq1, search_value)} })

add_handler(parts, cl, t, o) ==
    IF Len(parts) < 4
    THEN Replied(cl, t, <<>>, [kind |-> "usage_add"])
    ELSE
    LET name == P(parts, 2)
        value == P(parts, 3)
        remarks == IF Len(parts) > 4 THEN join(DropFirst(parts, 4)) ELSE <<>>
    IN  Only({ IF r.ret.ok
               THEN Replied(r.cl, t, <<r.rec>>, [kind |-> "add_ok", name |-> name])
               ELSE Replied(r.cl, t, <<r.rec>>, [kind |-> "add_failed", name |-> name])
               : r \in {add_env(cl, t, o.ex1, o.rq1, name, value, remarks)} })

\* next((e for e in all_envs if e.get('id') == env_id), None)
FirstWithId(all_envs, env_id) ==
    LET hits == {i \in 1..Len(all_envs) : all_envs[i].id = env_id}
    IN  IF hits = {} THEN 0 ELSE CHOOSE i \in hits : \A j \in hits : i <= j

\* two matches let through
IsAmbiguous_three(envs) == Len(envs) > 2

\* len(envs) > 1
IsAmbiguous(envs) == Len(envs) > 1

\* the update sends the initial `remarks = ""`
KeptRemarks_blank(env) == <<>>

\* target_env.get('remarks', ''): the remarks the update passes through
KeptRemarks(env) == env.remarks

\* `update id:<N>`, after get_envs("") has returned r
update_by_id(env_id, value, t, o, r) ==
    IF r.ret.tag = "None"
    THEN Raised(r.cl, t, <<r.rec>>, "TypeError")       \* for e in None
    ELSE
    LET all_envs == r.ret.list
        k == FirstWithId(all_envs, env_id)
        target_env == all_envs[k]
        original_name == target_env.name
        final_remarks == KeptRemarks(target_env)
        t2 == t + o.dt
    IN  IF k = 0
        THEN Replied(r.cl, t, <<r.rec>>, [kind |-> "update_no_such_id", id |-> env_id])
        ELSE Only({ IF u.ret.ok
                    THEN Replied(u.cl, t2, <<r.rec, u.rec>>,
                            [kind |-> "update_id_ok", id |-> env_id, name |-> original_name])
                    ELSE Replied(u.cl, t2, <<r.rec, u.rec>>,
                            [kind |-> "update_id_failed", id |-> env_id])
                    : u \in {update_env(r.cl, t2, o.ex2, o.rq2, env_id, original_name,
                                        value, final_remarks)} })

\* `update <name>`, after get_envs(name) has returned r
update_by_name(name, value, t, o, r) ==
    IF Falsy(r.ret)
    THEN Replied(r.cl, t, <<r.rec>>, [kind |-> "env_not_found", name |-> name])
    ELSE
    LET envs == r.ret.list
        t2 == t + o.dt
    IN  IF IsAmbiguous(envs)
        THEN Replied(r.cl, t, <<r.rec>>,
                [kind |-> "update_ambiguous", count |-> Len(envs), name |-> name,
                 matches |-> [i \in 1..Len(envs) |->
                                [id |-> envs[i].id, remarks |-> envs[i].remarks]],
                 hint_id |-> envs[1].id])
        ELSE
        LET env == envs[1]
            original_remarks == KeptRemarks(env)
        IN  Only({ IF u.ret.ok
                   THEN Replied(u.cl, t2, <<r.rec, u.rec>>,
                                [kind |-> "update_ok", name |-> name])
                   ELSE Replied(u.cl, t2, <<r.rec, u.rec>>,
                                [kind |-> "update_failed", name |-> name])
                   : u \in {update_env(r.cl, t2, o.ex2, o.rq2, env.id, name, value,
                                       original_remarks)} })

update_handler(parts, cl, t, o) ==
    IF Len(parts) < 4
    THEN Replied(cl, t, <<>>, [kind |-> "usage_update"])
    ELSE
    LET name_or_id == P(parts, 2)
        value == join(DropFirst(parts, 3))
    IN  IF startswith(name_or_id, <<"i", "d", ":">>)
        THEN
        LET parsed == int(DropFirst(name_or_id, 3))
        IN  IF ~parsed.ok
            THEN Replied(cl, t, <<>>, [kind |-> "invalid_id_format", text |-> name_or_id])
            ELSE Only({ update_by_id(parsed.val, value, t, o, r)
                        : r \in {get_envs(cl, t, o.ex1, o.rq1, <<>>)} })
        ELSE Only({ update_by_name(name_or_id, value, t, o, r)
                    : r \in {get_envs(cl, t, o.ex1, o.rq1, name_or_id)} })

\* delete that takes the last match instead of the first
delete_last(name, t, o, r) ==
    IF Falsy(r.ret)
    THEN Replied(r.cl, t, <<r.rec>>, [kind |-> "env_not_found", name |-> name])
    ELSE
    LET env == r.ret.list[Len(r.ret.list)]
        t2 == t + o.dt
    IN  Only({ IF d.ret.ok
               THEN Replied(d.cl, t2, <<r.rec, d.rec>>, [kind |-> "delete_ok", name |-> name])
               ELSE Replied(d.cl, t2, <<r.rec, d.rec>>,
                            [kind |-> "delete_failed", name |-> name])
               : d \in {delete_env(r.cl, t2, o.ex2, o.rq2, env.id)} })

\* `delete <name>`, after get_envs(name) has returned r
delete_first(name, t, o, r) ==
    IF Falsy(r.ret)
    THEN Replied(r.cl, t, <<r.rec>>, [kind |-> "env_not_found", name |-> name])
    ELSE
    LET env == r.ret.list[1]
        t2 == t + o.dt
    IN  Only({ IF d.ret.ok
               THEN Replied(d.cl, t2, <<r.rec, d.rec>>, [kind |-> "delete_ok", name |-> name])
               ELSE Replied(d.cl, t2, <<r.rec, d.rec>>,
                            [kind |-> "delete_failed", name |-> name])
               : d \in {delete_env(r.cl, t2, o.ex2, o.rq2, env.id)} })

delete_handler(parts, cl, t, o) ==
    IF Len(parts) < 3
    THEN Replied(cl, t, <<>>, [kind |-> "usage_delete"])
    ELSE Only({ delete_first(P(parts, 2), t, o, r)
                : r \in {get_envs(cl, t, o.ex1, o.rq1, P(parts, 2))} })

\* `enable <name>`, after get_envs(name) has returned r
enable_all(name, t, o, r) ==
    IF Falsy(r.ret)
    THEN Replied(r.cl, t, <<r.rec>>, [kind |-> "env_not_found", name |-> name])
    ELSE
    LET envs == r.ret.list
        env_ids == [i \in 1..Len(envs) |-> envs[i].id]
        t2 == t + o.dt
    IN  Only({ IF e.ret.ok
               THEN Replied(e.cl, t2, <<r.rec, e.rec>>, [kind |-> "enable_ok", name |-> name])
               ELSE Replied(e.cl, t2, <<r.rec, e.rec>>,
                            [kind |-> "enable_failed", name |-> name])
               : e \in {enable_env(r.cl, t2, o.ex2, o.rq2, env_ids)} })

enable_handler(parts, cl, t, o) ==
    IF Len(parts) < 3
    THEN Replied(cl, t, <<>>, [kind |-> "usage_enable"])
    ELSE Only({ enable_all(P(parts, 2), t, o, r)
                : r \in {get_envs(cl, t, o.ex1, o.rq1, P(parts, 2))} })

\* `disable <name>`, after get_envs(name) has returned r
disable_all(name, t, o, r) ==
    IF Falsy(r.ret)
    THEN Replied(r.cl, t, <<r.rec>>, [kind |-> "env_not_found", name |-> name])
    ELSE
    LET envs == r.ret.list
        env_ids == [i \in 1..Len(envs) |-> envs[i].id]
        t2 == t + o.dt
    IN  Only({ IF e.ret.ok
               THEN Replied(e.cl, t2, <<r.rec, e.rec>>, [kind |-> "disable_ok", name |-> name])
               ELSE Replied(e.cl, t2, <<r.rec, e.rec>>,
                            [kind |-> "disable_failed", name |-> name])
               : e \in {disable_env(r.cl, t2, o.ex2, o.rq2, env_ids)} })

disable_handler(parts, cl, t, o) ==
    IF Len(parts) < 3
    THEN Replied(cl, t, <<>>, [kind |-> "usage_disable"])
    ELSE Only({ disable_all(P(parts, 2), t, o, r)
                : r \in {get_envs(cl, t, o.ex1, o.rq1, P(parts, 2))} })

\* `ls`, after get_crons has returned r
crons_page(page, t, r) ==
    IF Falsy(r.ret)
    THEN Replied(r.cl, t, <<r.rec>>, [kind |-> "crons_none"])
    ELSE
    LET crons == r.ret.list
        total == Len(crons)
        start == (page - 1) * page_size
        end == start + page_size
        page_crons == PySlice(crons, start, end)
        total_pages == TotalPages(total)
    IN  IF page_crons = <<>>
        THEN Replied(r.cl, t, <<r.rec>>,
                     [kind |-> "page_out_of_range", pages |-> TotalPages(total)])
        ELSE Replied(r.cl, t, <<r.rec>>,
                [kind |-> "crons_page", page |-> page, total |-> total,
                 entries |-> [i \in 1..Len(page_crons) |-> CronEntry(page_crons[i])],
                 next_page |-> IF page < total_pages THEN page + 1 ELSE 0])

ls_handler(parts, cl, t, o) ==
    LET parsed == IF Len(parts) > 2 THEN int(P(parts, 2)) ELSE [ok |-> TRUE, val |-> 1]
    IN  IF ~parsed.ok
        THEN Replied(cl, t, <<>>, [kind |-> "page_not_number"])
        ELSE Only({ crons_page(parsed.val, t, r)
                    : r \in {get_crons(cl, t, o.ex1, o.rq1, <<>>)} })

run_handler(parts, cl, t, o) ==
    IF Len(parts) < 3
    THEN Replied(cl, t, <<>>, [kind |-> "usage_run"])
    ELSE
    LET parsed == int(P(parts, 2))
        cron_id == parsed.val
    IN  IF ~parsed.ok
        THEN Replied(cl, t, <<>>, [kind |-> "cron_id_not_number"])
        ELSE Only({ IF r.ret.ok
                    THEN Replied(r.cl, t, <<r.rec>>, [kind |-> "run_ok", cron_id |-> cron_id])
                    ELSE Replied(r.cl, t, <<r.rec>>,
                                 [kind |-> "run_failed", cron_id |-> cron_id])
                    : r \in {run_cron(cl, t, o.ex1, o.rq1, <<cron_id>>)} })

\* `log <id>`, after get_cron_log has returned r
log_text(cron_id, t, r) ==
    LET log_content == r.ret
    IN  IF log_content.tag = "None"
        THEN Replied(r.cl, t, <<r.rec>>, [kind |-> "log_failed", cron_id |-> cron_id])
        ELSE IF log_content.tag = "other"
        \* a number: `not log_content` is true for 0 only, len() of a number raises
        THEN IF log_content.data.n = 0
             THEN Replied(r.cl, t, <<r.rec>>, [kind |-> "log_empty", cron_id |-> cron_id])
             ELSE Raised(r.cl, t, <<r.rec>>, "TypeError")
        ELSE IF log_content.text = <<>>
        THEN Replied(r.cl, t, <<r.rec>>, [kind |-> "log_empty", cron_id |-> cron_id])
        ELSE Replied(r.cl, t, <<r.rec>>,
                [kind |-> "log_text", cron_id |-> cron_id,
                 ellipsis |-> Len(log_content.text) > LOG_TAIL,
                 text |-> IF Len(log_content.text) > LOG_TAIL
                          THEN TakeLast(log_content.text, LOG_TAIL)
                          ELSE log_content.text])

log_handler(parts, cl, t, o) ==
    IF Len(parts) < 3
    THEN Replied(cl, t, <<>>, [kind |-> "usage_log"])
    ELSE
    LET parsed == int(P(parts, 2))
    IN  IF ~parsed.ok
        THEN Replied(cl, t, <<>>, [kind |-> "cron_id_not_number"])
        ELSE Only({ log_text(parsed.val, t, r)
                    : r \in {get_cron_log(cl, t, o.ex1, o.rq1, parsed.val)} })

stop_handler(parts, cl, t, o) ==
    IF Len(parts) < 3
    THEN Replied(cl, t, <<>>, [kind |-> "usage_stop"])
    ELSE
    LET parsed == int(P(parts, 2))
        cron_id == parsed.val
    IN  IF ~parsed.ok
        THEN Replied(cl, t, <<>>, [kind |-> "cron_id_not_number"])
        ELSE Only({ IF r.ret.ok
                    THEN Replied(r.cl, t, <<r.rec>>, [kind |-> "stop_ok", cron_id |-> cron_id])
                    ELSE Replied(r.cl, t, <<r.rec>>,
                                 [kind |-> "stop_failed", cron_id |-> cron_id])
                    : r \in {stop_cron(cl, t, o.ex1, o.rq1, <<cron_id>>)} })

W_enable == <<"e", "n", "a", "b", "l", "e">>
W_disable == <<"d", "i", "s", "a", "b", "l", "e">>
W_pin == <<"p", "i", "n">>
W_unpin == <<"u", "n", "p", "i", "n">>
W_delete == <<"d", "e", "l", "e", "t", "e">>

\* `cron <action> <id>`: the reply once the action's method has returned r
cron_reply(word, cron_id, t, r) ==
    IF r.ret.ok
    THEN Replied(r.cl, t, <<r.rec>>, [kind |-> "cron_ok", action |-> word, cron_id |-> cron_id])
    ELSE Replied(r.cl, t, <<r.rec>>,
                 [kind |-> "cron_failed", action |-> word, cron_id |-> cron_id])

\* cron whose last branch takes every other action word for delete
cron_handler_catchall(parts, cl, t, o) ==
    IF Len(parts) < 4
    THEN Replied(cl, t, <<>>, [kind |-> "usage_cron"])
    ELSE
    LET action == lower(P(parts, 2))
        parsed == int(P(parts, 3))
        cron_id == parsed.val
    IN  IF ~parsed.ok
        THEN Replied(cl, t, <<>>, [kind |-> "cron_id_not_number"])
        ELSE IF action = W_enable
        THEN Only({ cron_reply("enable", cron_id, t, r)
                    : r \in {enable_cron(cl, t, o.ex1, o.rq1, <<cron_id>>)} })
        ELSE IF action = W_disable
        THEN Only({ cron_reply("disable", cron_id, t, r)
                    : r \in {disable_cron(cl, t, o.ex1, o.rq1, <<cron_id>>)} })
        ELSE IF action = W_pin
        THEN Only({ cron_reply("pin", cron_id, t, r)
                    : r \in {pin_cron(cl, t, o.ex1, o.rq1, <<cron_id>>)} })
        ELSE IF action = W_unpin
        THEN Only({ cron_reply("unpin", cron_id, t, r)
                    : r \in {unpin_cron(cl, t, o.ex1, o.rq1, <<cron_id>>)} })
        ELSE Only({ cron_reply("delete", cron_id, t, r)
                    : r \in {delete_cron(cl, t, o.ex1, o.rq1, <<cron_id>>)} })

cron_handler(parts, cl, t, o) ==
    IF Len(parts) < 4
    THEN Replied(cl, t, <<>>, [kind |-> "usage_cron"])
    ELSE
    LET action == lower(P(parts, 2))
        parsed == int(P(parts, 3))
        cron_id == parsed.val
    IN  IF ~parsed.ok
        THEN Replied(cl, t, <<>>, [kind |-> "cron_id_not_number"])
        ELSE IF action = W_enable
        THEN Only({ cron_reply("enable", cron_id, t, r)
                    : r \in {enable_cron(cl, t, o.ex1, o.rq1, <<cron_id>>)} })
        ELSE IF action = W_disable
        THEN Only({ cron_reply("disable", cron_id, t, r)
                    : r \in {disable_cron(cl, t, o.ex1, o.rq1, <<cron_id>>)} })
        ELSE IF action = W_pin
        THEN Only({ cron_reply("pin", cron_id, t, r)
                    : r \in {pin_cron(cl, t, o.ex1, o.rq1, <<cron_id>>)} })
        ELSE IF action = W_unpin
        THEN Only({ cron_reply("unpin", cron_id, t, r)
                    : r \in {unpin_cron(cl, t, o.ex1, o.rq1, <<cron_id>>)} })
        ELSE IF action = W_delete
        THEN Only({ cron_reply("delete", cron_id, t, r)
                    : r \in {delete_cron(cl, t, o.ex1, o.rq1, <<cron_id>>)} })
        ELSE Replied(cl, t, <<>>,
                [kind |-> "cron_unknown_action", action |-> action,
                 supported |-> <<W_enable, W_disable, W_pin, W_unpin, W_delete>>])

\* `info`, after get_system_info has returned r
info_text(t, r) ==
    LET system_info == r.ret
    IN  IF system_info.tag = "None"
        THEN Replied(r.cl, t, <<r.rec>>, [kind |-> "info_failed"])
        ELSE IF system_info.tag = "other"
        \* a number: `not system_info` is true for 0 only, `'version' in 5` raises
        THEN IF system_info.data.n = 0
             THEN Replied(r.cl, t, <<r.rec>>, [kind |-> "info_failed"])
             ELSE Raised(r.cl, t, <<r.rec>>, "TypeError")
        ELSE IF system_info.dict = <<>>
        THEN Replied(r.cl, t, <<r.rec>>, [kind |-> "info_failed"])
        ELSE
        LET items == {system_info.dict[i] : i \in 1..Len(system_info.dict)}
            keys == {e.key : e \in items}
            val(k) == (CHOOSE e \in items : e.key = k).val
        IN  Replied(r.cl, t, <<r.rec>>,
                [kind |-> "info_text",
                 version |-> IF "version" \in keys THEN val("version") ELSE "",
                 branch |-> IF "version" \in keys /\ "branch" \in keys
                            THEN val("branch") ELSE "",
                 status |-> IF "isInitialized" \in keys
                            THEN (IF val("isInitialized") = "true" THEN "initialized"
                                  ELSE "not_initialized")
                            ELSE ""])

info_handler(parts, cl, t, o) ==
    Only({ info_text(t, r) : r \in {get_system_info(cl, t, o.ex1, o.rq1)} })

unknown_handler(parts, cl, t, o) ==
    Replied(cl, t, <<>>, [kind |-> "unknown_command", command |-> lower(P(parts, 1))])

W_list == <<"l", "i", "s", "t">>
W_envs == <<"e", "n", "v", "s">>
W_add == <<"a", "d", "d">>
W_update == <<"u", "p", "d", "a", "t", "e">>
W_ls == <<"l", "s">>
W_run == <<"r", "u", "n">>
W_log == <<"l", "o", "g">>
W_stop == <<"s", "t", "o", "p">>
W_cron == <<"c", "r", "o", "n">>
W_info == <<"i", "n", "f", "o">>

\* parts = message.split(); command = parts[1].lower(); the if / elif chain
ql_command(parts, cl, t, o) ==
    IF Len(parts) < 2 THEN help_handler(parts, cl, t, o)
    ELSE
    LET command == lower(P(parts, 1))
    IN  CASE command \in {W_list, W_envs} -> envs_handler(parts, cl, t, o)
          [] command = W_add -> add_handler(parts, cl, t, o)
          [] command = W_update -> update_handler(parts, cl, t, o)
          [] command = W_delete -> delete_handler(parts, cl, t, o)
          [] command = W_enable -> enable_handler(parts, cl, t, o)
          [] command = W_disable -> disable_handler(parts, cl, t, o)
          [] command = W_ls -> ls_handler(parts, cl, t, o)
          [] command = W_run -> run_handler(parts, cl, t, o)
          [] command = W_log -> log_handler(parts, cl, t, o)
          [] command = W_stop -> stop_handler(parts, cl, t, o)
          [] command = W_cron -> cron_handler(parts, cl, t, o)
          [] command = W_info -> info_handler(parts, cl, t, o)
          [] OTHER -> unknown_handler(parts, cl, t, o)


(***************************************************************************)
(* What the user types and what the panel answers                          *)
(***************************************************************************)
W_ql == <<"/", "q", "l">>
T_1 == <<"1">>
T_42 == <<"4", "2">>
T_x == <<"x">>
T_A == <<"A">>
T_v == <<"v">>
T_w == <<"w">>

PageTokens == {T_1, <<"2">>, <<"3">>, <<"4">>, <<"0">>, <<"-", "1">>}

Env(id, name, value, remarks, status) ==
    [id |-> id, name |-> name, value |-> value, remarks |-> remarks, status |-> status]
e1 == Env(1, T_A, <<"v", "1">>, <<"r", "1">>, 0)
e2 == Env(2, T_A, <<"v", "2">>, <<>>, 1)
e3 == Env(3, <<"A", "B">>, <<"v", "3">>, <<"k", "e", "e", "p">>, 0)
NamedLists == {<<>>, <<e1>>, <<e3>>, <<e1, e2>>, <<e2, e1>>, <<e1, e2, e3>>}

GenEnvs(n) == [i \in 1..n |-> Env(i, T_A, T_v, IF i % 3 = 0 THEN <<"r">> ELSE <<>>, i % 2)]
GenCrons(n) ==
    [i \in 1..n |->
        [id |-> i, name |-> <<"j">>, command |-> <<"c">>, schedule |-> <<"*">>, status |-> i % 2]]

Ok(data) == [kind |-> "ok", message |-> "", data |-> data]
Failures ==
    {[kind |-> "app", message |-> m, data |-> NoArg] : m \in Messages}
    \cup {[kind |-> k, message |-> "", data |-> NoArg] :
            k \in TransportFailures \cup {"malformed"}}

BoolOutcomes == {Ok(NoArg)} \cup Failures
\* what the exchange ends in while the router is exercised
RouterExchanges == {ex \in ExchangeOutcomes : ex.kind = "timeout" \/ ex.token = "tokA"}
\* what a method's own request ends in while the client is exercised
ClientOutcomes(data) ==
    {Ok(data)} \cup {rq \in Failures : rq.kind \in {"timeout", "connect"} \/ rq.message = "busy"}

AsList(l) == [tag |-> "list", list |-> l]
OddLists == {[tag |-> "dict", list |-> <<e1, e2>>], [tag |-> "dict_null"], [tag |-> "scalar"]}
EnvsOutcomes ==
    {Ok(AsList(GenEnvs(n))) : n \in 0..MaxN} \cup {Ok(d) : d \in OddLists} \cup Failures
NamedOutcomes ==
    {Ok(AsList(l)) : l \in NamedLists} \cup {Ok(d) : d \in OddLists} \cup Failures
CronsOutcomes ==
    {Ok(AsList(GenCrons(n))) : n \in 0..MaxN}
    \cup {Ok([tag |-> "dict", list |-> GenCrons(2)]), Ok([tag |-> "dict_null"])}
    \cup Failures
LogOutcomes ==
    {Ok([tag |-> "text", text |-> <<"o", "k">>]), Ok([tag |-> "text", text |-> <<>>]),
     Ok([tag |-> "missing"]), Ok([tag |-> "null"]),
     Ok([tag |-> "int", n |-> 0]), Ok([tag |-> "int", n |-> 5])}
    \cup Failures
KV(k, v) == [key |-> k, val |-> v]
InfoOutcomes ==
    {Ok([tag |-> "info", dict |-> d]) :
        d \in {<<KV("version", "2.17"), KV("branch", "master"), KV("isInitialized", "true")>>,
               <<KV("version", "2.17")>>,
               <<KV("branch", "master"), KV("isInitialized", "false")>>,
               <<KV("other", "x")>>}}
    \cup {Ok([tag |-> "missing"]), Ok([tag |-> "null"]), Ok([tag |-> "int", n |-> 5])}
    \cup Failures

IdCommands(word) ==
    {<<W_ql, word>>, <<W_ql, word, T_42>>, <<W_ql, word, T_x>>, <<W_ql, word, <<"-", "1">>>>}

(***************************************************************************)
(* The state machine                                                       *)
(***************************************************************************)
VARIABLES
    token,          \* QinglongAPI.token
    token_expire,   \* QinglongAPI.token_expire
    issued,         \* when the cached token was issued (-1: never)
    now,            \* time.time()
    pc,             \* "idle", or "replied" once ql_command has run
    last            \* the invocation that has just run

vars == <<token, token_expire, issued, now, pc, last>>

NoInvocation == [parts |-> <<>>, ops |-> <<>>, replies |-> <<>>, fault |-> "none"]

Init ==
    /\ token = NoToken
    /\ token_expire = 0
    /\ issued = -1
    /\ now = 0
    /\ pc = "idle"
    /\ last = NoInvocation

Oracle(ex1, rq1, ex2, rq2, dt) ==
    [ex1 |-> ex1, rq1 |-> rq1, ex2 |-> ex2, rq2 |-> rq2, dt |-> dt]

Client == [token |-> token, token_expire |-> token_expire, issued |-> issued]

\* The panel answers the requests the handler makes, and only those: an
\* answer is "none" exactly where the handler made no such request.
Answered(o, ops) ==
    /\ (o.ex1 # NoExchange) <=> (Len(ops) >= 1 /\ ops[1].exchanged)
    /\ (o.rq1 # NoResponse) <=> (Len(ops) >= 1 /\ ops[1].sent)
    /\ (o.ex2 # NoExchange) <=> (Len(ops) >= 2 /\ ops[2].exchanged)
    /\ (o.rq2 # NoResponse) <=> (Len(ops) >= 2 /\ ops[2].sent)

\* One invocation of ql_command, start to finish.  `outcomes` is what the
\* first operation's own request can end in.
Command(commands, outcomes) ==
    /\ pc = "idle"
    /\ \E parts \in commands :
       \E ex1 \in RouterExchanges \cup {NoExchange}, rq1 \in outcomes \cup {NoResponse},
          ex2 \in RouterExchanges \cup {NoExchange}, rq2 \in BoolOutcomes \cup {NoResponse} :
         \E h \in {ql_command(parts, Client, now, Oracle(ex1, rq1, ex2, rq2, 0))} :
             /\ Answered(Oracle(ex1, rq1, ex2, rq2, 0), h.ops)
             /\ token' = h.cl.token
             /\ token_expire' = h.cl.token_expire
             /\ issued' = h.cl.issued
             /\ now' = h.t
             /\ last' = [parts |-> parts, ops |-> h.ops, replies |-> h.replies,
                         fault |-> h.fault]
    /\ pc' = "replied"

Help ==
    Command({<<>>, <<W_ql>>},
            {NoResponse})
Envs ==
    Command({<<W_ql, W_envs>>, <<W_ql, <<"L", "i", "s", "t">>>>,
            <<W_ql, W_envs, T_A>>, <<W_ql, W_envs, T_A, <<"2">>>>, <<W_ql, W_envs, T_A, T_x>>}
            \cup {<<W_ql, W_envs, p>> : p \in PageTokens},
            EnvsOutcomes)
Add ==
    Command({<<W_ql, W_add>>, <<W_ql, W_add, T_A>>, <<W_ql, W_add, T_A, T_v>>,
            <<W_ql, W_add, T_A, T_v, T_w, T_x>>},
            BoolOutcomes)
Update ==
    Command({<<W_ql, W_update>>, <<W_ql, W_update, T_A>>,
            <<W_ql, W_update, T_A, T_v>>, <<W_ql, W_update, T_A, T_v, T_w>>,
            <<W_ql, W_update, <<"i", "d", ":", "1">>, T_v>>,
            <<W_ql, W_update, <<"i", "d", ":", "3">>, T_v, T_w>>,
            <<W_ql, W_update, <<"i", "d", ":", "9">>, T_v>>,
            <<W_ql, W_update, <<"i", "d", ":", "x">>, T_v>>,
            <<W_ql, W_update, <<"i", "d", ":">>, T_v>>},
            NamedOutcomes)
Delete ==
    Command({<<W_ql, W_delete>>, <<W_ql, W_delete, T_A>>},
            NamedOutcomes)
Enable ==
    Command({<<W_ql, W_enable>>, <<W_ql, W_enable, T_A>>},
            NamedOutcomes)
Disable ==
    Command({<<W_ql, W_disable>>, <<W_ql, W_disable, T_A>>},
            NamedOutcomes)
Ls ==
    Command({<<W_ql, W_ls>>, <<W_ql, W_ls, T_x>>} \cup {<<W_ql, W_ls, p>> : p \in PageTokens},
            CronsOutcomes)
Run ==
    Command(IdCommands(W_run) \cup {<<W_ql, <<"R", "U", "N">>, T_1>>},
            BoolOutcomes)
Log ==
    Command(IdCommands(W_log),
            LogOutcomes)
Stop ==
    Command(IdCommands(W_stop),
            BoolOutcomes)
Cron ==
    Command({<<W_ql, W_cron>>, <<W_ql, W_cron, W_enable>>,
            <<W_ql, W_cron, W_enable, T_x>>, <<W_ql, W_cron, T_x, T_x>>,
            <<W_ql, W_cron, T_x, T_42>>, <<W_ql, W_cron, <<"P", "i", "n">>, T_1>>}
            \cup {<<W_ql, W_cron, a, T_42>> : a \in {W_enable, W_disable, W_pin, W_unpin, W_delete}},
            BoolOutcomes)
Info ==
    Command({<<W_ql, W_info>>},
            InfoOutcomes)
Unknown ==
    Command({<<W_ql, T_x>>, <<W_ql, <<"I", "n", "f", "o", "s">>, T_1>>},
            {NoResponse})

\* the handler's generator is exhausted; the host takes the next message
Return ==
    /\ pc = "replied"
    /\ pc' = "idle"
    /\ last' = NoInvocation
    /\ UNCHANGED <<token, token_expire, issued, now>>

\* The router: every command, on every answer of the panel.
Next ==
    \/ Help \/ Envs \/ Add \/ Update \/ Delete \/ Enable \/ Disable
    \/ Ls \/ Run \/ Log \/ Stop \/ Cron \/ Info \/ Unknown
    \/ Return

Spec == Init /\ [][Next]_vars

\* the methods of QinglongAPI, each on arguments of its own
Method(name, ex, rq) ==
    CASE name = "get_envs" -> get_envs(Client, now, ex, rq, T_A)
      [] name = "add_env" -> add_env(Client, now, ex, rq, T_A, T_v, <<>>)
      [] name = "update_env" -> update_env(Client, now, ex, rq, 1, T_A, T_v, <<>>)
      [] name = "delete_env" -> delete_env(Client, now, ex, rq, 1)
      [] name = "enable_env" -> enable_env(Client, now, ex, rq, <<1, 2>>)
      [] name = "disable_env" -> disable_env(Client, now, ex, rq, <<1, 2>>)
      [] name = "get_crons" -> get_crons(Client, now, ex, rq, <<>>)
      [] name = "run_cron" -> run_cron(Client, now, ex, rq, <<1>>)
      [] name = "stop_cron" -> stop_cron(Client, now, ex, rq, <<1>>)
      [] name = "enable_cron" -> enable_cron(Client, now, ex, rq, <<1>>)
      [] name = "disable_cron" -> disable_cron(Client, now, ex, rq, <<1>>)
      [] name = "pin_cron" -> pin_cron(Client, now, ex, rq, <<1>>)
      [] name = "unpin_cron" -> unpin_cron(Client, now, ex, rq, <<1>>)
      [] name = "delete_cron" -> delete_cron(Client, now, ex, rq, <<1>>)
      [] name = "get_cron_log" -> get_cron_log(Client, now, ex, rq, 1)
      [] name = "get_system_info" -> get_system_info(Client, now, ex, rq)

\* One call of a method of QinglongAPI: the exchange is answered only when
\* get_token makes it, the method's own request only when it is sent.
ApiCall(name, outcomes) ==
    /\ pc = "idle"
    /\ \E ex \in (IF Method(name, NoExchange, NoResponse).rec.exchanged
                  THEN ExchangeOutcomes ELSE {NoExchange}) :
         \E rq \in (IF Method(name, ex, NoResponse).rec.sent THEN outcomes ELSE {NoResponse}) :
           \E r \in {Method(name, ex, rq)} :
               /\ token' = r.cl.token
               /\ token_expire' = r.cl.token_expire
               /\ issued' = r.cl.issued
               /\ last' = [parts |-> <<>>, ops |-> <<r.rec>>, replies |-> <<>>,
                           fault |-> "none"]
    /\ pc' = "replied"
    /\ UNCHANGED now

CallGetEnvs == ApiCall("get_envs", ClientOutcomes(AsList(<<e1>>)))
CallAddEnv == ApiCall("add_env", ClientOutcomes(NoArg))
CallUpdateEnv == ApiCall("update_env", ClientOutcomes(NoArg))
CallDeleteEnv == ApiCall("delete_env", ClientOutcomes(NoArg))
CallEnableEnv == ApiCall("enable_env", ClientOutcomes(NoArg))
CallDisableEnv == ApiCall("disable_env", ClientOutcomes(NoArg))
CallGetCrons == ApiCall("get_crons", ClientOutcomes(AsList(GenCrons(1))))
CallRunCron == ApiCall("run_cron", ClientOutcomes(NoArg))
CallStopCron == ApiCall("stop_cron", ClientOutcomes(NoArg))
CallEnableCron == ApiCall("enable_cron", ClientOutcomes(NoArg))
CallDisableCron == ApiCall("disable_cron", ClientOutcomes(NoArg))
CallPinCron == ApiCall("pin_cron", ClientOutcomes(NoArg))
CallUnpinCron == ApiCall("unpin_cron", ClientOutcomes(NoArg))
CallDeleteCron == ApiCall("delete_cron", ClientOutcomes(NoArg))
CallGetCronLog ==
    ApiCall("get_cron_log", ClientOutcomes([tag |-> "text", text |-> <<"o", "k">>]))
CallGetSystemInfo ==
    ApiCall("get_system_info",
            ClientOutcomes([tag |-> "info", dict |-> <<KV("version", "2.17")>>]))

\* time passes between calls
Tick ==
    /\ pc = "idle"
    /\ now < MaxNow
    /\ now' = now + 1
    /\ UNCHANGED <<token, token_expire, issued, pc, last>>

\* The client: any sequence of panel operations, on every answer to the
\* exchange, as time passes.
NextClient ==
    \/ CallGetEnvs \/ CallAddEnv \/ CallUpdateEnv \/ CallDeleteEnv
    \/ CallEnableEnv \/ CallDisableEnv \/ CallGetCrons \/ CallRunCron
    \/ CallStopCron \/ CallEnableCron \/ CallDisableCron \/ CallPinCron
    \/ CallUnpinCron \/ CallDeleteCron \/ CallGetCronLog \/ CallGetSystemInfo
    \/ Return \/ Tick

SpecClient == Init /\ [][NextClient]_vars

(***************************************************************************)
(* Concurrent invocations: tasks of one event loop sharing one QinglongAPI. *)
(* A task runs between two awaits without interruption; it is suspended    *)
(* while its exchange or its request is in flight.  Here pc maps each task *)
(* to its position and last holds, per task, the exchanges its operation   *)
(* has made and the bearer it sent, and the exchange that stored last.     *)
(***************************************************************************)
NotStored == [token |-> NoToken, at |-> -1, by |-> 0]

InitConcurrent ==
    /\ token = NoToken
    /\ token_expire = 0
    /\ issued = -1
    /\ now = 0
    /\ pc = [p \in 1..MaxTasks |-> "idle"]
    /\ last = [exchanges |-> [p \in 1..MaxTasks |-> 0],
               bearer |-> [p \in 1..MaxTasks |-> NoToken],
               stored |-> NotStored]

\* a panel operation calls get_token: the cache test, then either straight
\* on or the exchange request, on which the task is suspended
CallGetToken(p) ==
    /\ pc[p] = "idle"
    /\ IF token_cached(Client, now)
       THEN /\ pc' = [pc EXCEPT ![p] = "ready"]
            /\ last' = [last EXCEPT !.exchanges[p] = 0]
       ELSE /\ pc' = [pc EXCEPT ![p] = "exchanging"]
            /\ last' = [last EXCEPT !.exchanges[p] = 1]
    /\ UNCHANGED <<token, token_expire, issued, now>>

\* the exchange is answered and get_token runs to its return
ExchangeReturns(p) ==
    /\ pc[p] = "exchanging"
    /\ \E ex \in ExchangeOutcomes :
         \E d \in {exchange_done(Client, now, ex)} :
           /\ token' = d.cl.token
           /\ token_expire' = d.cl.token_expire
           /\ issued' = d.cl.issued
           /\ pc' = [pc EXCEPT ![p] = IF d.ok THEN "ready" ELSE "returned"]
           /\ last' = IF ex.kind = "ok"
                      THEN [last EXCEPT !.stored = [token |-> ex.token, at |-> now, by |-> p]]
                      ELSE last
    /\ UNCHANGED now

\* the operation sends its own request with the bearer cached at that moment
SendRequest(p) ==
    /\ pc[p] = "ready"
    /\ pc' = [pc EXCEPT ![p] = "requesting"]
    /\ last' = [last EXCEPT !.bearer[p] = get_headers(Client).Authorization[2]]
    /\ UNCHANGED <<token, token_expire, issued, now>>

\* the request is answered, or get_token has returned False: the operation
\* returns and the task goes on to its next one
OperationReturns(p) ==
    /\ pc[p] \in {"requesting", "returned"}
    /\ pc' = [pc EXCEPT ![p] = "idle"]
    /\ last' = [last EXCEPT !.exchanges[p] = 0, !.bearer[p] = NoToken]
    /\ UNCHANGED <<token, token_expire, issued, now>>

\* time passes while the tasks are suspended or idle
TimePasses ==
    /\ now < MaxNow
    /\ now' = now + 1
    /\ UNCHANGED <<token, token_expire, issued, pc, last>>

NextConcurrent ==
    \/ \E p \in 1..MaxTasks :
         \/ CallGetToken(p) \/ ExchangeReturns(p) \/ SendRequest(p)
         \/ OperationReturns(p)
    \/ TimePasses

SpecConcurrent == InitConcurrent /\ [][NextConcurrent]_vars

(***************************************************************************)
(* Claims                                                                  *)
(***************************************************************************)
\* the panel operations of the invocation that has just run
LastOps == {last.ops[i] : i \in 1..Len(last.ops)}
ExchangeFailures == {"app", "timeout", "connect", "other", "malformed"}

\* C1, as stated: once an exchange has succeeded, an operation started
\* before the cached expiry instant (issue time + 6 days) sends no credential
\* exchange, and one started after it sends exactly one.
C1_AsStated ==
    \A op \in LastOps :
        op.issued_before >= 0 =>
            /\ (op.start < op.issued_before + TOKEN_TTL => ~op.exchanged)
            /\ (op.start > op.issued_before + TOKEN_TTL => op.exchanged)

\* C1, amended: once an exchange has succeeded and cached a non-empty token,
\* an operation started before issue time + 6 days sends no credential
\* exchange, and one started after it sends exactly one.
C1_TokenCaching ==
    \A op \in LastOps :
        (op.issued_before >= 0 /\ op.token_before # "") =>
            /\ (op.start < op.issued_before + TOKEN_TTL => ~op.exchanged)
            /\ (op.start > op.issued_before + TOKEN_TTL => op.exchanged)

\* a later invocation's operation runs inside the window of a cached token
C1_Witness ==
    \E op \in LastOps :
        /\ op.token_before = "tokA"
        /\ op.issued_before < op.start
        /\ op.start < op.issued_before + TOKEN_TTL
        /\ ~op.exchanged
        /\ op.sent

\* C2: an operation whose get_token returns False sends no request of its
\* own and returns its failure value ([], False or None).
C2_ShortCircuit ==
    \A op \in LastOps :
        ~op.token_ok =>
            /\ ~op.sent
            /\ op.request = NoRequest
            /\ op.ret = FailureValue(op.op)

\* the second operation of a command is stopped by a failed exchange
C2_Witness ==
    \E op \in LastOps : op.op = "update_env" /\ op.exchanged /\ ~op.token_ok

\* C3, as stated: after a failed exchange get_token returns False and the
\* client holds no token (None, or the empty text), whatever it held before.
C3_AsStated ==
    \A op \in LastOps :
        (op.exchanged /\ op.exchange.kind \in ExchangeFailures) =>
            ~op.token_ok /\ ~Truthy(op.token_after)

\* C3, amended: after a failed exchange get_token returns False and the
\* cached token and expiry are what they were before the call.
C3_FailureKeepsCache ==
    \A op \in LastOps :
        (op.exchanged /\ op.exchange.kind \in ExchangeFailures) =>
            /\ ~op.token_ok
            /\ op.token_after = op.token_before
            /\ op.expire_after = op.expire_before

\* an expired cached token meets a failed exchange
C3_Witness ==
    \E op \in LastOps :
        /\ op.token_before = "tokA"
        /\ op.start >= op.expire_before
        /\ op.exchanged
        /\ op.exchange.kind \in ExchangeFailures
        /\ token = "tokA"

\* --- the router's invocations ---------------------------------------------
CommandOf(parts) == IF Len(parts) >= 2 THEN lower(parts[2]) ELSE <<>>
IsUpdate(parts) == CommandOf(parts) = W_update /\ Len(parts) >= 4
ById(parts) == startswith(parts[3], <<"i", "d", ":">>)
Mutating(op) == op.sent /\ op.request.method \in {"PUT", "POST", "DELETE"}
\* the list the first operation handed to the router
Fetched == last.ops[1].ret.list
HasFetched ==
    /\ Len(last.ops) >= 1
    /\ last.ops[1].op = "get_envs"
    /\ last.ops[1].ret.tag = "list"

\* C4: `update <name> <value...>`, the selector not starting with id: and
\* the name-filtered list holding 2 or more variables, sends no PUT, POST or
\* DELETE, and its single reply lists the id of every matching variable.
C4_AmbiguousUpdate ==
    (pc = "replied" /\ IsUpdate(last.parts) /\ ~ById(last.parts)
        /\ HasFetched /\ Len(Fetched) >= 2) =>
        /\ \A op \in LastOps : ~Mutating(op)
        /\ last.fault = "none"
        /\ Len(last.replies) = 1
        /\ "matches" \in DOMAIN last.replies[1]
        /\ [i \in 1..Len(last.replies[1].matches) |-> last.replies[1].matches[i].id]
             = [i \in 1..Len(Fetched) |-> Fetched[i].id]

\* an update by name meets three matches and lists the three ids
C4_Witness ==
    /\ pc = "replied"
    /\ IsUpdate(last.parts) /\ ~ById(last.parts)
    /\ HasFetched /\ Len(Fetched) = 3
    /\ Len(last.ops) = 1
    /\ last.replies[1].kind = "update_ambiguous"
    /\ Len(last.replies[1].matches) = 3

\* the variable an update is aimed at: the first one with the id for id:<N>,
\* the only one for a name that matches exactly one (0: there is none)
Target(parts) ==
    IF ById(parts)
    THEN LET n == int(DropFirst(parts[3], 3)).val
             hits == {k \in 1..Len(Fetched) : Fetched[k].id = n}
         IN  IF hits = {} THEN 0 ELSE CHOOSE k \in hits : \A j \in hits : k <= j
    ELSE IF Len(Fetched) = 1 THEN 1 ELSE 0

CeilPages(n) == CHOOSE k \in 0..n : 10 * k >= n /\ 10 * (k - 1) < n
Min(a, b) == IF a < b THEN a ELSE b
IsEnvs(parts) == CommandOf(parts) \in {W_envs, W_list}
\* the page an `envs` command asks for
PageAsked(parts) ==
    IF Len(parts) >= 3 /\ int(parts[3]).ok THEN int(parts[3]).val
    ELSE IF Len(parts) >= 4 /\ int(parts[4]).ok THEN int(parts[4]).val
    ELSE 1

\* what C6 says of a list of n variables and page p
PageShown(n, p) ==
    /\ (1 <= p /\ p <= CeilPages(n)) =>
         /\ Len(last.replies) = 1
         /\ last.replies[1].kind = "envs_page"
         /\ Len(last.replies[1].entries) = Min(10, n - 10 * (p - 1))
    /\ p > CeilPages(n) =>
         /\ Len(last.replies) = 1
         /\ last.replies[1].kind = "page_out_of_range"
         /\ last.replies[1].pages = CeilPages(n)

\* C6, as stated: for a fetched list of length N, page p of `envs` shows
\* exactly min(10, N - 10(p-1)) entries when 1 <= p <= ceil(N/10), and every
\* larger p gets the page-out-of-range error naming ceil(N/10).
C6_AsStated ==
    (pc = "replied" /\ IsEnvs(last.parts) /\ HasFetched
        /\ last.ops[1].response.data.tag = "list") =>
        PageShown(Len(Fetched), PageAsked(last.parts))

\* C6, amended: the same for a fetched list that is not empty.
C6_EnvsPagination ==
    (pc = "replied" /\ IsEnvs(last.parts) /\ HasFetched /\ Len(Fetched) >= 1) =>
        PageShown(Len(Fetched), PageAsked(last.parts))

\* the last page of 21 variables shows one entry
C6_Witness ==
    /\ pc = "replied" /\ IsEnvs(last.parts) /\ HasFetched
    /\ Len(Fetched) = 21 /\ PageAsked(last.parts) = 3
    /\ last.replies[1].kind = "envs_page"
    /\ Len(last.replies[1].entries) = 1

\* --- the same invocation on another answer of the panel --------------------
ClientBefore ==
    [token |-> last.ops[1].token_before, token_expire |-> last.ops[1].expire_before,
     issued |-> last.ops[1].issued_before]
ExchangeOf(k) == IF Len(last.ops) >= k THEN last.ops[k].exchange ELSE NoExchange
ResponseOf(k) == IF Len(last.ops) >= k THEN last.ops[k].response ELSE NoResponse
\* ql_command on the same text and client, operation i's request ending in rq
Replay(i, rq) ==
    ql_command(last.parts, ClientBefore, last.ops[1].start,
               Oracle(ExchangeOf(1), IF i = 1 THEN rq ELSE ResponseOf(1),
                      ExchangeOf(2), IF i = 2 THEN rq ELSE ResponseOf(2), 0))
Failed(kind, message) == [kind |-> kind, message |-> message, data |-> NoArg]
CronDelete42 == <<W_ql, W_cron, W_delete, T_42>>

IsIntegerText(s) ==
    LET body == IF s # <<>> /\ s[1] \in {"+", "-"} THEN Tail(s) ELSE s
    IN  /\ body # <<>>
        /\ \A i \in 1..Len(body) :
             body[i] \in {"0", "1", "2", "3", "4", "5", "6", "7", "8", "9"}

\* the invalid arguments C8 lists
InvalidArgs(parts) ==
    LET c == CommandOf(parts)
        n == Len(parts)
    IN  \/ c \in {W_add, W_update, W_cron} /\ n < 4
        \/ c \in {W_delete, W_enable, W_disable, W_run, W_stop, W_log} /\ n < 3
        \/ c \in {W_run, W_stop, W_log} /\ n >= 3 /\ ~IsIntegerText(parts[3])
        \/ c = W_cron /\ n >= 4 /\ ~IsIntegerText(parts[4])
        \/ c = W_ls /\ n >= 3 /\ ~IsIntegerText(parts[3])
        \/ c = W_update /\ n >= 4 /\ ById(parts) /\ ~IsIntegerText(DropFirst(parts[3], 3))

FixedTexts ==
    {"usage_add", "usage_update", "usage_delete", "usage_enable", "usage_disable",
     "usage_run", "usage_stop", "usage_log", "usage_cron",
     "cron_id_not_number", "page_not_number", "invalid_id_format"}

\* C8: a command whose arguments are invalid is answered with the usage or
\* fixed error text and makes no operation at all: no credential exchange
\* and no panel request.
C8_ValidationFirst ==
    (pc = "replied" /\ InvalidArgs(last.parts)) =>
        /\ last.ops = <<>>
        /\ last.fault = "none"
        /\ Len(last.replies) = 1
        /\ last.replies[1].kind \in FixedTexts

\* a non-numeric job id is turned away before anything is sent
C8_Witness ==
    /\ pc = "replied"
    /\ CommandOf(last.parts) = W_run /\ Len(last.parts) = 3
    /\ ~IsIntegerText(last.parts[3])
    /\ last.ops = <<>>
    /\ last.replies = <<[kind |-> "cron_id_not_number"]>>

\* C9: every invocation, on every outcome of its remote calls and every
\* payload shape, emits exactly one reply, and no fault leaves the handler.
C9_OneReply ==
    pc = "replied" => (Len(last.replies) = 1 /\ last.fault = "none")

C11_RefreshIsSafe ==
    /\ \A p \in 1..MaxTasks : last.exchanges[p] <= 1
    /\ IF last.stored = NotStored
       THEN token = NoToken /\ token_expire = 0
       ELSE token = last.stored.token /\ token_expire = last.stored.at + TOKEN_TTL

\* two tasks saw the token missing, both exchanged, and the answers came
\* at different times: the second one's pair is the cached one
C11_Witness ==
    /\ \A p \in 1..MaxTasks : last.exchanges[p] = 1 /\ pc[p] \in {"ready", "requesting"}
    /\ last.stored.by = 2
    /\ last.stored.token = "tokA"
    /\ last.stored.at = now /\ now > 0
    /\ last.bearer[1] = "tokA"
    /\ token_expire = now + TOKEN_TTL

\* --- more of the router ------------------------------------------------------
IsDelete(parts) == CommandOf(parts) = W_delete /\ Len(parts) >= 3

CronActions == {W_enable, W_disable, W_pin, W_unpin, W_delete}
\* `cron <action> <id>` with an action word outside the five
UnknownCronAction(parts) ==
    /\ CommandOf(parts) = W_cron
    /\ Len(parts) >= 4
    /\ lower(parts[3]) \notin CronActions
UnknownActionReply(parts) ==
    [kind |-> "cron_unknown_action", action |-> lower(parts[3]),
     supported |-> <<W_enable, W_disable, W_pin, W_unpin, W_delete>>]

\* C13, as stated: for every action word outside enable, disable, pin,
\* unpin, delete and every id token, the router sends nothing and replies
\* with the unknown-action rejection that lists the five.
C13_AsStated ==
    (pc = "replied" /\ UnknownCronAction(last.parts)) =>
        /\ last.ops = <<>>
        /\ last.replies = <<UnknownActionReply(last.parts)>>

\* C13, amended: for every such action word the router sends nothing; with
\* an id token that is an integer the reply is the unknown-action rejection
\* listing the five, with any other id token it is the id-must-be-a-number
\* text.
C13_UnknownAction ==
    (pc = "replied" /\ UnknownCronAction(last.parts)) =>
        /\ last.ops = <<>>
        /\ last.replies =
             IF IsIntegerText(last.parts[4])
             THEN <<UnknownActionReply(last.parts)>>
             ELSE <<[kind |-> "cron_id_not_number"]>>

\* `cron x 42` is turned away with the list of the five actions
C13_Witness ==
    /\ pc = "replied"
    /\ last.parts = <<W_ql, W_cron, T_x, T_42>>
    /\ last.ops = <<>>
    /\ last.replies = <<UnknownActionReply(last.parts)>>

\* C14: `update <name> <value...>` that resolves to exactly one variable
\* sends that variable's own id, its current name and its current remarks,
\* whatever filter token matched it.
C14_UpdateKeepsName ==
    (pc = "replied" /\ IsUpdate(last.parts) /\ ~ById(last.parts)
        /\ HasFetched /\ Len(Fetched) = 1
        /\ Len(last.ops) = 2 /\ last.ops[2].sent) =>
        /\ last.ops[2].request.json.id = Fetched[1].id
        /\ last.ops[2].request.json.name = Fetched[1].name
        /\ last.ops[2].request.json.remarks = Fetched[1].remarks

IsLs(parts) == CommandOf(parts) = W_ls
\* the list the first operation handed to `envs` or `ls`
HasListed ==
    /\ Len(last.ops) >= 1
    /\ last.ops[1].op = (IF IsLs(last.parts) THEN "get_crons" ELSE "get_envs")
    /\ last.ops[1].ret.tag = "list"
\* the page `envs` or `ls` is asked for
ListPageAsked(parts) ==
    IF IsLs(parts)
    THEN (IF Len(parts) >= 3 THEN int(parts[3]).val ELSE 1)
    ELSE PageAsked(parts)

\* C15: `envs` and `ls` with a non-empty fetched list of length N and an
\* integer page p <= 0 list no entries and reply with the page-out-of-range
\* error naming ceil(N/10).
C15_PagesBelowOne ==
    (pc = "replied" /\ (IsEnvs(last.parts) \/ IsLs(last.parts)) /\ HasListed
        /\ Len(Fetched) >= 1 /\ ListPageAsked(last.parts) <= 0) =>
        last.replies = <<[kind |-> "page_out_of_range", pages |-> CeilPages(Len(Fetched))]>>

\* the commands that start with a list request
FetchesList(parts) ==
    CommandOf(parts) \in {W_envs, W_list, W_ls, W_update, W_delete, W_enable, W_disable}
\* the first operation is a list request that failed: no token, a transport
\* failure or an envelope with code other than 200
FetchFailed ==
    /\ Len(last.ops) >= 1
    /\ last.ops[1].op \in {"get_envs", "get_crons"}
    /\ \/ ~last.ops[1].token_ok
       \/ last.ops[1].sent /\ last.ops[1].response.kind \in TransportFailures \cup {"app"}
\* the same invocation when the fetch succeeds with zero records
ReplayEmpty ==
    ql_command(last.parts, ClientBefore, last.ops[1].start,
               Oracle(IF last.ops[1].exchanged
                      THEN [kind |-> "ok", token |-> "tokA", message |-> ""]
                      ELSE NoExchange,
                      Ok(AsList(<<>>)), NoExchange, NoResponse, 0))

\* C16: when the list request behind envs, ls, update, delete, enable or
\* disable fails, the reply is different from the reply given when the
\* fetch succeeds with zero records.
C16_FailureIsNotEmpty ==
    (pc = "replied" /\ FetchesList(last.parts) /\ FetchFailed) =>
        /\ Len(last.replies) = 1
        /\ last.replies # ReplayEmpty.replies

====
